---- MODULE Spec2Model ----
(***************************************************************************)
(* Order / payment lifecycle of the "Code with Destiny" backend            *)
(* (src/app.py): the orders table, the four request handlers               *)
(* create_order, verify_payment, get_order_details and send_book, the      *)
(* notifier send_email and the background threads of send_email_async.     *)
(*                                                                         *)
(* Each handler is one action (requests served one after the other); the   *)
(* background e-mail thread is an action of its own.  Strings the code     *)
(* inspects (name, email, whatsapp) are sequences of one-character         *)
(* strings.  An HMAC-SHA256 digest is modelled symbolically as the pair    *)
(* of its key and its message, i.e. as a collision-free keyed hash.  The   *)
(* running background threads form a bag: they have no order.              *)
(* The columns created_at / updated_at are not modelled.                   *)
(***************************************************************************)
EXTENDS Integers, Sequences, FiniteSets, Bags, TLC

\* ------------------------------------------------------------------ bounds
MaxClock == 1
MaxGw == 1
MaxOrders == 2
MaxThreads == 2
MaxInflight == 2

\* ------------------------------------------------------------- value sets
NoId == <<"none", 0>>
NoPid == ""
NoMail == <<>>

FreeId(t) == <<"FREE", t>>
GwId(k) == <<"order", k>>

FreeIds == {FreeId(t) : t \in 0..MaxClock}
GwIds == {GwId(k) : k \in 1..MaxGw}
OrderIds == FreeIds \cup GwIds
PaymentIds == {"pay_1", "pay_2"}

Secret == "key_secret"
WrongSecret == "other_secret"

Alice == <<"A">>
AlicePadded == <<" ", "A", " ">>
Bob == <<"B">>
Blank == <<" ">>
AliceMail == <<"a", "@", "x", ".", "c">>
BobMail == <<"b", "@", "y", ".", "d">>
NoAtMail == <<"a", ".", "c">>
NoDotMail == <<"a", "@", "x">>
Phone == <<"9">>

JsonInt(n) == [t |-> "int", s |-> <<>>, v |-> n]
JsonStr(s) == [t |-> "str", s |-> s, v |-> 0]

\* -------------------------------------------------- python string helpers
IsSpace(c) == c = " "

RECURSIVE LStrip(_)
LStrip(s) == IF s # <<>> /\ IsSpace(Head(s)) THEN LStrip(Tail(s)) ELSE s

RECURSIVE RStrip(_)
RStrip(s) ==
    IF s # <<>> /\ IsSpace(s[Len(s)]) THEN RStrip(SubSeq(s, 1, Len(s) - 1)) ELSE s

\* str.strip()
Strip(s) == RStrip(LStrip(s))

\* c in s
Contains(s, c) == \E i \in 1..Len(s) : s[i] = c

Digits == <<"0", "1", "2", "3", "4", "5", "6", "7", "8", "9">>
IsDigit(c) == \E d \in 1..10 : Digits[d] = c
DigitVal(c) == (CHOOSE d \in 1..10 : Digits[d] = c) - 1

RECURSIVE DigitsVal(_)
DigitsVal(s) ==
    IF s = <<>> THEN 0
    ELSE DigitsVal(SubSeq(s, 1, Len(s) - 1)) * 10 + DigitVal(s[Len(s)])

\* int(x): an integer is itself, a string of digits is parsed, anything
\* else raises ValueError (ok = FALSE).
PyInt(x) ==
    IF x.t = "int" THEN [ok |-> TRUE, v |-> x.v]
    ELSE LET s == Strip(x.s)
         IN  IF s # <<>> /\ \A i \in 1..Len(s) : IsDigit(s[i])
             THEN [ok |-> TRUE, v |-> DigitsVal(s)]
             ELSE [ok |-> FALSE, v |-> 0]

\* ------------------------------------------------------ signature verifier
Body(razorpay_order_id, razorpay_payment_id) ==
    <<razorpay_order_id, "|", razorpay_payment_id>>

Hmac(key, msg) == [key |-> key, msg |-> msg]

NoSig == [key |-> "", msg |-> Body(NoId, NoPid)]

ExpectedSignature(razorpay_order_id, razorpay_payment_id) ==
    Hmac(Secret, Body(razorpay_order_id, razorpay_payment_id))

\* the message built from the order id alone
SignatureOkOrderOnly(razorpay_order_id, razorpay_payment_id, razorpay_signature) ==
    /\ razorpay_signature.key = Secret
    /\ razorpay_signature.msg[1] = razorpay_order_id

SignatureOk(razorpay_order_id, razorpay_payment_id, razorpay_signature) ==
    ExpectedSignature(razorpay_order_id, razorpay_payment_id) = razorpay_signature

\* ------------------------------------------------------------------- state
VARIABLES
    orders,     \* the orders table: order id -> row
    clock,      \* int(time.time())
    gwCount,    \* number of orders the gateway has created
    threads,    \* background threads started by send_email_async
    last,       \* the last request: its response and the calls it made
    inflight    \* verify_payment requests being served concurrently

vars == <<orders, clock, gwCount, threads, last, inflight>>

\* ids the gateway has returned from a successful order.create
GwIssued == {GwId(k) : k \in 1..gwCount}

Idle ==
    [op |-> "none", code |-> 0, order_id |-> NoId, payment_id |-> NoPid,
     gwCalls |-> <<>>, mails |-> <<>>, results |-> <<>>]

\* ------------------------------------------------------------ order store
\* the amount stored in paise
insert_order_in_paise(store, order_id, name, email, whatsapp, amount, dbOk) ==
    IF dbOk /\ order_id \notin DOMAIN store
    THEN [ok |-> TRUE,
          store |-> store @@ (order_id :>
              [user_name |-> name, user_email |-> email,
               user_whatsapp |-> whatsapp, amount |-> amount * 100,
               status |-> "created", payment_id |-> NoPid])]
    ELSE [ok |-> FALSE, store |-> store]

\* INSERT OR REPLACE
insert_order_replace(store, order_id, name, email, whatsapp, amount, dbOk) ==
    IF dbOk
    THEN [ok |-> TRUE,
          store |-> [i \in DOMAIN store \cup {order_id} |->
              IF i = order_id
              THEN [user_name |-> name, user_email |-> email,
                    user_whatsapp |-> whatsapp, amount |-> amount,
                    status |-> "created", payment_id |-> NoPid]
              ELSE store[i]]]
    ELSE [ok |-> FALSE, store |-> store]

\* INSERT OR IGNORE: a colliding insert reports success
insert_order_or_ignore(store, order_id, name, email, whatsapp, amount, dbOk) ==
    IF dbOk
    THEN [ok |-> TRUE,
          store |-> IF order_id \in DOMAIN store THEN store
                    ELSE store @@ (order_id :>
              [user_name |-> name, user_email |-> email,
               user_whatsapp |-> whatsapp, amount |-> amount,
               status |-> "created", payment_id |-> NoPid])]
    ELSE [ok |-> FALSE, store |-> store]

insert_order(store, order_id, name, email, whatsapp, amount, dbOk) ==
    IF dbOk /\ order_id \notin DOMAIN store
    THEN [ok |-> TRUE,
          store |-> store @@ (order_id :>
              [user_name |-> name, user_email |-> email,
               user_whatsapp |-> whatsapp, amount |-> amount,
               status |-> "created", payment_id |-> NoPid])]
    ELSE [ok |-> FALSE, store |-> store]

\* the transition written as a flip: a paid row goes back to 'created'
update_order_payment_toggle(store, order_id, payment_id, status, dbOk) ==
    IF dbOk
    THEN [ok |-> TRUE,
          store |-> [i \in DOMAIN store |->
              IF i = order_id
              THEN [store[i] EXCEPT
                       !.payment_id = payment_id,
                       !.status = IF store[i].status = status THEN "created"
                                  ELSE status]
              ELSE store[i]]]
    ELSE [ok |-> FALSE, store |-> store]

\* UPDATE orders SET payment_id = ? : the status column left out
update_order_payment_no_status(store, order_id, payment_id, status, dbOk) ==
    IF dbOk
    THEN [ok |-> TRUE,
          store |-> [i \in DOMAIN store |->
              IF i = order_id
              THEN [store[i] EXCEPT !.payment_id = payment_id]
              ELSE store[i]]]
    ELSE [ok |-> FALSE, store |-> store]

\* UPDATE orders SET ... without the WHERE clause
update_order_payment_no_where(store, order_id, payment_id, status, dbOk) ==
    IF dbOk
    THEN [ok |-> TRUE,
          store |-> [i \in DOMAIN store |->
              [store[i] EXCEPT !.payment_id = payment_id, !.status = status]]]
    ELSE [ok |-> FALSE, store |-> store]

\* INSERT OR REPLACE INTO orders (id, payment_id, status): the row is
\* replaced, its other columns lost
update_order_payment_replace(store, order_id, payment_id, status, dbOk) ==
    IF dbOk
    THEN [ok |-> TRUE,
          store |-> [i \in DOMAIN store \cup {order_id} |->
              IF i = order_id
              THEN [user_name |-> <<>>, user_email |-> NoMail,
                    user_whatsapp |-> <<>>, amount |-> 0,
                    status |-> status, payment_id |-> payment_id]
              ELSE store[i]]]
    ELSE [ok |-> FALSE, store |-> store]

update_order_payment(store, order_id, payment_id, status, dbOk) ==
    IF dbOk
    THEN [ok |-> TRUE,
          store |-> [i \in DOMAIN store |->
              IF i = order_id
              THEN [store[i] EXCEPT !.payment_id = payment_id, !.status = status]
              ELSE store[i]]]
    ELSE [ok |-> FALSE, store |-> store]

get_order(store, order_id, dbOk) ==
    IF dbOk /\ order_id \in DOMAIN store
    THEN [found |-> TRUE, row |-> store[order_id]]
    ELSE [found |-> FALSE,
          row |-> [user_name |-> <<>>, user_email |-> NoMail,
                   user_whatsapp |-> <<>>, amount |-> 0,
                   status |-> "", payment_id |-> NoPid]]

\* ---------------------------------------------------------------- notifier
Mail(recipient_email, kind, order_id) ==
    [to |-> recipient_email, kind |-> kind, order_id |-> order_id, link |-> TRUE]

\* send_email: one call of the notifier; it catches every exception and
\* returns whether the mail went out (mailOk).
send_email(recipient_email, kind, order_id, mailOk) ==
    [call |-> Mail(recipient_email, kind, order_id), result |-> mailOk]

\* send_email_async: a daemon thread is started that will call send_email;
\* nothing is sent yet.  The result is the bag of running threads.
send_email_async(pool, recipient_email, kind, order_id) ==
    pool (+) SetToBag({Mail(recipient_email, kind, order_id)})

\* ---------------------------------------------------------------- requests
RequiredFields == {"name", "email", "whatsapp", "amount"}

CreateReq(json, has, name, email, whatsapp, amount) ==
    [json |-> json, has |-> has, name |-> name, email |-> email,
     whatsapp |-> whatsapp, amount |-> amount]

CreateRequests ==
    { CreateReq(TRUE, RequiredFields, AlicePadded, AliceMail, Phone, JsonInt(0)),
      CreateReq(TRUE, RequiredFields, Bob, BobMail, Phone, JsonInt(1)),
      CreateReq(TRUE, RequiredFields, Bob, BobMail, Phone, JsonStr(<<"1">>)),
      CreateReq(TRUE, RequiredFields, Alice, AliceMail, Phone, JsonInt(-1)),
      CreateReq(TRUE, RequiredFields, Alice, AliceMail, Phone, JsonStr(<<"a", "b">>)),
      CreateReq(TRUE, RequiredFields \ {"whatsapp"}, Alice, AliceMail, <<>>, JsonInt(0)),
      CreateReq(TRUE, RequiredFields \ {"amount"}, Alice, AliceMail, Phone, JsonInt(0)),
      CreateReq(TRUE, RequiredFields, Alice, NoAtMail, Phone, JsonInt(0)),
      CreateReq(TRUE, RequiredFields, Alice, NoDotMail, Phone, JsonInt(1)),
      CreateReq(TRUE, RequiredFields, Alice, Blank, Phone, JsonInt(0)),
      CreateReq(FALSE, RequiredFields, Alice, AliceMail, Phone, JsonInt(0)) }

\* ----------------------------------------------------------- create_order
\* A response, with the gateway and notifier calls the request made.
\* results: what the send_email calls made inside the request returned
\* (a value no handler looks at).
Resp(op, code, order_id, payment_id, gwCalls, mails) ==
    [op |-> op, code |-> code, order_id |-> order_id, payment_id |-> payment_id,
     gwCalls |-> gwCalls, mails |-> mails, results |-> <<>>]

\* What a create_order request leaves behind: the table, the gateway's
\* order count and the response.
CreateOut(store, gwc, code, order_id, gwCalls, mails) ==
    [store |-> store, gwCount |-> gwc,
     last |-> Resp("create", code, order_id, NoPid, gwCalls, mails)]

MinorUnitsNoScale(amount) == amount

\* amount * 100: rupees to paise
MinorUnits(amount) == amount * 100

\* if amount == 0
IsFreeAmount(amount) == amount = 0

\* the free branch failing when the notifier does
free_path_mail_checked(name, email, whatsapp, store, now, gwc, dbOk, mailOk) ==
    LET order_id == FreeId(now)
        ins == insert_order(store, order_id, name, email, whatsapp, 0, dbOk)
        sent == send_email(email, "free", order_id, mailOk)
    IN  IF ins.ok /\ sent.result
        THEN [CreateOut(ins.store, gwc, 200, order_id, <<>>, <<sent.call>>)
                 EXCEPT !.last.results = <<sent.result>>]
        ELSE CreateOut(ins.store, gwc, 500, NoId, <<>>, <<>>)

\* the free branch: the id is FREE-<int(time.time())>
free_path(name, email, whatsapp, store, now, gwc, dbOk, mailOk) ==
    LET order_id == FreeId(now)
        ins == insert_order(store, order_id, name, email, whatsapp, 0, dbOk)
        sent == send_email(email, "free", order_id, mailOk)
    IN  IF ins.ok
        THEN [CreateOut(ins.store, gwc, 200, order_id, <<>>, <<sent.call>>)
                 EXCEPT !.last.results = <<sent.result>>]
        ELSE CreateOut(ins.store, gwc, 500, NoId, <<>>, <<>>)

\* a row under a local id when the gateway fails
paid_path_fallback_id(name, email, whatsapp, amount, store, now, gwc, gwOk, dbOk) ==
    LET call == MinorUnits(amount)
        order_id == IF gwOk THEN GwId(gwc + 1) ELSE FreeId(now)
        ins == insert_order(store, order_id, name, email, whatsapp, amount, dbOk)
        g == IF gwOk THEN gwc + 1 ELSE gwc
    IN  IF ins.ok
        THEN CreateOut(ins.store, g, 200, order_id, <<call>>, <<>>)
        ELSE CreateOut(ins.store, g, 500, NoId, <<call>>, <<>>)

\* the paid branch: razorpay_client.order.create raises when the gateway
\* fails (gwOk = FALSE), and the handler's except clause answers 500.
paid_path(name, email, whatsapp, amount, store, now, gwc, gwOk, dbOk) ==
    LET call == MinorUnits(amount)
        order_id == GwId(gwc + 1)
        ins == insert_order(store, order_id, name, email, whatsapp, amount, dbOk)
    IN  IF ~gwOk THEN CreateOut(store, gwc, 500, NoId, <<call>>, <<>>)
        ELSE IF ins.ok
        THEN CreateOut(ins.store, gwc + 1, 200, order_id, <<call>>, <<>>)
        ELSE CreateOut(ins.store, gwc + 1, 500, NoId, <<call>>, <<>>)

create_order(req, store, now, gwc, gwOk, dbOk, mailOk) ==
    LET name == Strip(req.name)
        email == Strip(req.email)
        whatsapp == Strip(req.whatsapp)
        parsed == PyInt(req.amount)
        amount == parsed.v
    IN
    IF ~req.json THEN CreateOut(store, gwc, 415, NoId, <<>>, <<>>)
    ELSE IF ~(RequiredFields \subseteq req.has)
    THEN CreateOut(store, gwc, 400, NoId, <<>>, <<>>)
    \* int() raised: the except clause
    ELSE IF ~parsed.ok THEN CreateOut(store, gwc, 500, NoId, <<>>, <<>>)
    ELSE IF ~Contains(email, "@") \/ ~Contains(email, ".")
    THEN CreateOut(store, gwc, 400, NoId, <<>>, <<>>)
    ELSE IF amount < 0 THEN CreateOut(store, gwc, 400, NoId, <<>>, <<>>)
    ELSE IF IsFreeAmount(amount)
    THEN free_path(name, email, whatsapp, store, now, gwc, dbOk, mailOk)
    ELSE paid_path(name, email, whatsapp, amount, store, now, gwc, gwOk, dbOk)

\* -------------------------------------------------------- verify_payment
\* What a verify_payment request leaves behind: the table, the pool of
\* background threads and the response (mails: the threads it started).
VerifyOut(store, pool, code, order_id, payment_id, mails) ==
    [store |-> store, threads |-> pool,
     last |-> Resp("verify", code, order_id, payment_id, <<>>, mails)]

\* the status written without the payment id
verified_path_status_only(razorpay_payment_id, our_order_id, store, pool, updOk, getOk) ==
    LET upd == update_order_payment(store, our_order_id, NoPid, "paid", updOk)
        order == get_order(upd.store, our_order_id, getOk)
        started == send_email_async(pool, order.row.user_email, "paid", our_order_id)
    IN  IF order.found
        THEN VerifyOut(upd.store, started, 200, our_order_id, razorpay_payment_id,
                       <<Mail(order.row.user_email, "paid", our_order_id)>>)
        ELSE VerifyOut(upd.store, pool, 200, our_order_id, razorpay_payment_id, <<>>)

\* the branch taken when the signature matches
verified_path(razorpay_payment_id, our_order_id, store, pool, updOk, getOk) ==
    LET upd == update_order_payment(store, our_order_id, razorpay_payment_id,
                                    "paid", updOk)
        order == get_order(upd.store, our_order_id, getOk)
        started == send_email_async(pool, order.row.user_email, "paid", our_order_id)
    IN  IF order.found
        THEN VerifyOut(upd.store, started, 200, our_order_id, razorpay_payment_id,
                       <<Mail(order.row.user_email, "paid", our_order_id)>>)
        ELSE VerifyOut(upd.store, pool, 200, our_order_id, razorpay_payment_id, <<>>)

verify_payment(razorpay_order_id, razorpay_payment_id, razorpay_signature, our_order_id, store, pool, updOk, getOk) ==
    \* not all([...]): None and the empty string are both falsy
    IF razorpay_order_id = NoId \/ razorpay_payment_id = NoPid
       \/ razorpay_signature = NoSig \/ our_order_id = NoId
    THEN VerifyOut(store, pool, 400, NoId, NoPid, <<>>)
    ELSE IF SignatureOk(razorpay_order_id, razorpay_payment_id, razorpay_signature)
    THEN verified_path(razorpay_payment_id, our_order_id, store, pool, updOk, getOk)
    ELSE VerifyOut(store, pool, 400, NoId, NoPid, <<>>)

\* ----------------------------------------------------- get_order_details
get_order_details(order_id, store, dbOk) ==
    LET order == get_order(store, order_id, dbOk)
    IN  IF ~order.found THEN Resp("get", 404, NoId, NoPid, <<>>, <<>>)
        ELSE Resp("get", 200, order_id, NoPid, <<>>, <<>>)

\* the lookup of the order left out
send_book_no_lookup(order_id, email, store, dbOk, mailOk) ==
    LET sent == send_email(email, "book", order_id, mailOk)
    IN  IF order_id = NoId \/ email = NoMail
        THEN Resp("sendbook", 400, NoId, NoPid, <<>>, <<>>)
        ELSE [Resp("sendbook", 200, order_id, NoPid, <<>>, <<sent.call>>)
                 EXCEPT !.results = <<sent.result>>]

\* the book sent to the address stored with the order
send_book_to_owner(order_id, email, store, dbOk, mailOk) ==
    LET order == get_order(store, order_id, dbOk)
        sent == send_email(order.row.user_email, "book", order_id, mailOk)
    IN  IF order_id = NoId \/ email = NoMail
        THEN Resp("sendbook", 400, NoId, NoPid, <<>>, <<>>)
        ELSE IF ~order.found THEN Resp("sendbook", 404, NoId, NoPid, <<>>, <<>>)
        ELSE [Resp("sendbook", 200, order_id, NoPid, <<>>, <<sent.call>>)
                 EXCEPT !.results = <<sent.result>>]

\* -------------------------------------------------------------- send_book
send_book(order_id, email, store, dbOk, mailOk) ==
    LET order == get_order(store, order_id, dbOk)
        sent == send_email(email, "book", order_id, mailOk)
    IN  IF order_id = NoId \/ email = NoMail
        THEN Resp("sendbook", 400, NoId, NoPid, <<>>, <<>>)
        ELSE IF ~order.found THEN Resp("sendbook", 404, NoId, NoPid, <<>>, <<>>)
        ELSE [Resp("sendbook", 200, order_id, NoPid, <<>>, <<sent.call>>)
                 EXCEPT !.results = <<sent.result>>]

\* ----------------------------------------------------------------- inputs
\* A request meets at most one failing collaborator.
CreateFaults == {"none", "gateway", "db", "mail"}
VerifyFaults == {"none", "update", "get", "db"}
SendFaults == {"none", "db", "mail"}

VerifyReq(razorpay_order_id, razorpay_payment_id, razorpay_signature, order_id) ==
    [razorpay_order_id |-> razorpay_order_id,
     razorpay_payment_id |-> razorpay_payment_id,
     razorpay_signature |-> razorpay_signature, order_id |-> order_id]

\* callbacks whose signature the gateway made for the pair they carry
SignedRequests ==
    {VerifyReq(o, p, ExpectedSignature(o, p), our) :
        o \in GwIds, p \in PaymentIds, our \in OrderIds}

\* a signature under another key, and one made for another payment
ForgedRequests ==
    {VerifyReq(GwId(1), "pay_1", Hmac(WrongSecret, Body(GwId(1), "pay_1")), our) :
        our \in OrderIds}
    \cup {VerifyReq(GwId(1), "pay_2", ExpectedSignature(GwId(1), "pay_1"), GwId(1))}

\* one of the four inputs missing or empty
IncompleteRequests ==
    { VerifyReq(NoId, "pay_1", ExpectedSignature(GwId(1), "pay_1"), GwId(1)),
      VerifyReq(GwId(1), NoPid, ExpectedSignature(GwId(1), "pay_1"), GwId(1)),
      VerifyReq(GwId(1), "pay_1", NoSig, GwId(1)),
      VerifyReq(GwId(1), "pay_1", ExpectedSignature(GwId(1), "pay_1"), NoId) }

VerifyRequests == SignedRequests \cup ForgedRequests \cup IncompleteRequests

Verify(req, store, pool, fault) ==
    verify_payment(req.razorpay_order_id, req.razorpay_payment_id,
                   req.razorpay_signature, req.order_id, store, pool,
                   fault \notin {"update", "db"}, fault \notin {"get", "db"})

SendRequests ==
    {[order_id |-> o, email |-> e] : o \in OrderIds, e \in {AliceMail, BobMail}}
    \cup {[order_id |-> NoId, email |-> AliceMail],
          [order_id |-> GwId(1), email |-> NoMail]}

Send(req, store, fault) ==
    send_book(req.order_id, req.email, store, fault # "db", fault # "mail")

Create(req, store, now, gwc, fault) ==
    create_order(req, store, now, gwc, fault # "gateway", fault # "db",
                 fault # "mail")

\* ----------------------------------------------------------------- actions
\* the requests being served at the same time, each with its position in
\* verify_payment; none when requests are served one after the other
Slots == 1..MaxInflight

IdleSlot ==
    [pc |-> "idle", req |-> VerifyReq(NoId, NoPid, NoSig, NoId), wrote |-> 0,
     found |-> FALSE, email |-> NoMail]

NoneInFlight == [i \in Slots |-> IdleSlot]

Init ==
    /\ orders = <<>>
    /\ clock = 0
    /\ gwCount = 0
    /\ threads = EmptyBag
    /\ last = Idle
    /\ inflight = NoneInFlight

\* the wall clock reaches the next second
Tick ==
    /\ clock < MaxClock
    /\ clock' = clock + 1
    /\ UNCHANGED <<orders, gwCount, threads, last, inflight>>

\* POST /api/orders/create
CreateOrder ==
    \E req \in CreateRequests, fault \in CreateFaults :
        \E r \in {Create(req, orders, clock, gwCount, fault)} :
            /\ Cardinality(DOMAIN r.store) <= MaxOrders
            /\ r.gwCount <= MaxGw
            /\ orders' = r.store
            /\ gwCount' = r.gwCount
            /\ last' = r.last
            /\ UNCHANGED <<clock, threads, inflight>>

\* POST /api/payments/verify
VerifyPayment ==
    \E req \in VerifyRequests, fault \in VerifyFaults :
        \E r \in {Verify(req, orders, threads, fault)} :
            /\ BagCardinality(r.threads) <= MaxThreads
            /\ orders' = r.store
            /\ last' = r.last
            /\ threads' = r.threads
            /\ UNCHANGED <<clock, gwCount, inflight>>

\* a background thread of send_email_async runs send_email and ends
\* (whatever send_email returns or raises, _send swallows it)
AsyncSend ==
    \E mail \in BagToSet(threads), mailOk \in BOOLEAN :
        \E sent \in {send_email(mail.to, mail.kind, mail.order_id, mailOk)} :
            /\ threads' = threads (-) SetToBag({sent.call})
            /\ UNCHANGED <<orders, clock, gwCount, last, inflight>>

\* GET /api/orders/<order_id>
GetOrder ==
    \E order_id \in OrderIds, dbOk \in BOOLEAN :
        /\ last' = get_order_details(order_id, orders, dbOk)
        /\ UNCHANGED <<orders, clock, gwCount, threads, inflight>>

\* POST /api/send-book
SendBook ==
    \E req \in SendRequests, fault \in SendFaults :
        /\ last' = Send(req, orders, fault)
        /\ UNCHANGED <<orders, clock, gwCount, threads, inflight>>

Next == CreateOrder \/ VerifyPayment \/ AsyncSend \/ GetOrder \/ SendBook \/ Tick

Spec == Init /\ [][Next]_vars

\* ------------------------------------------------ concurrent verification
\* The server handles each request in a thread of its own, so two
\* verify_payment requests can interleave between their statements.  Each
\* of update_order_payment and get_order opens a connection, runs a single
\* statement and closes: one step each.

\* the tables a race starts from: the one create_order leaves after a paid
\* order, and after a free order next to it
RaceStores ==
    LET paid == Create(CreateReq(TRUE, RequiredFields, Bob, BobMail, Phone, JsonInt(1)),
                       <<>>, 0, 0, "none")
        free == Create(CreateReq(TRUE, RequiredFields, AlicePadded, AliceMail, Phone, JsonInt(0)),
                       paid.store, 0, paid.gwCount, "none")
    IN  {paid.store, free.store}

RaceInit ==
    /\ orders \in RaceStores
    /\ clock = 0
    /\ gwCount = 1
    /\ threads = EmptyBag
    /\ last = Idle
    /\ inflight = NoneInFlight

\* the number of UPDATE statements committed so far
Writes == Cardinality({i \in Slots : inflight[i].wrote > 0})

\* a request arrives: the four inputs are read and the signature compared
VerifyBegin ==
    \E i \in Slots, req \in VerifyRequests :
        /\ inflight[i].pc = "idle"
        /\ IF req.razorpay_order_id = NoId \/ req.razorpay_payment_id = NoPid
              \/ req.razorpay_signature = NoSig \/ req.order_id = NoId
              \/ ~SignatureOk(req.razorpay_order_id, req.razorpay_payment_id,
                              req.razorpay_signature)
           THEN /\ inflight' = [inflight EXCEPT ![i].pc = "done", ![i].req = req]
                /\ last' = Resp("verify", 400, NoId, NoPid, <<>>, <<>>)
           ELSE /\ inflight' = [inflight EXCEPT ![i].pc = "update", ![i].req = req]
                /\ last' = last
        /\ UNCHANGED <<orders, clock, gwCount, threads>>

\* update_order_payment(our_order_id, razorpay_payment_id, 'paid')
VerifyUpdate ==
    \E i \in Slots, dbOk \in BOOLEAN :
        \E upd \in {update_order_payment(orders, inflight[i].req.order_id,
                        inflight[i].req.razorpay_payment_id, "paid", dbOk)} :
            /\ inflight[i].pc = "update"
            /\ orders' = upd.store
            /\ inflight' = [inflight EXCEPT
                              ![i].pc = "get",
                              ![i].wrote = IF upd.ok THEN Writes + 1 ELSE 0]
            /\ UNCHANGED <<clock, gwCount, threads, last>>

\* order = get_order(our_order_id)
VerifyGet ==
    \E i \in Slots, dbOk \in BOOLEAN :
        \E order \in {get_order(orders, inflight[i].req.order_id, dbOk)} :
            /\ inflight[i].pc = "get"
            /\ inflight' = [inflight EXCEPT
                              ![i].pc = "respond",
                              ![i].found = order.found,
                              ![i].email = order.row.user_email]
            /\ UNCHANGED <<orders, clock, gwCount, threads, last>>

\* if order: send_email_async(...); then the success response
VerifyRespond ==
    \E i \in Slots :
        LET req == inflight[i].req
            mail == Mail(inflight[i].email, "paid", req.order_id)
        IN  /\ inflight[i].pc = "respond"
            /\ threads' = IF inflight[i].found
                          THEN send_email_async(threads, inflight[i].email, "paid",
                                                req.order_id)
                          ELSE threads
            /\ last' = Resp("verify", 200, req.order_id, req.razorpay_payment_id, <<>>,
                            IF inflight[i].found THEN <<mail>> ELSE <<>>)
            /\ inflight' = [inflight EXCEPT ![i].pc = "done"]
            /\ UNCHANGED <<orders, clock, gwCount>>

RaceNext == VerifyBegin \/ VerifyUpdate \/ VerifyGet \/ VerifyRespond \/ AsyncSend

RaceSpec == RaceInit /\ [][RaceNext]_vars

\* ================================================================== claims

\* C1: once the stored status of an order is 'paid' it is 'paid' in every
\* later state, whatever request follows (a create_order that produces the
\* same id again included).
StatusMonotonic ==
    [][\A id \in DOMAIN orders :
          orders[id].status = "paid" =>
              id \in DOMAIN orders' /\ orders'[id].status = "paid"]_vars

\* a free create_order failed in the second whose FREE- order is paid
PaidSurvivesSameId ==
    /\ last.op = "create" /\ last.code = 500 /\ last.gwCalls = <<>>
    /\ FreeId(clock) \in DOMAIN orders
    /\ orders[FreeId(clock)].status = "paid"

Incomplete(req) ==
    \/ req.razorpay_order_id = NoId
    \/ req.razorpay_payment_id = NoPid
    \/ req.razorpay_signature = NoSig
    \/ req.order_id = NoId

SignatureDiffers(req) ==
    req.razorpay_signature #
        Hmac(Secret, Body(req.razorpay_order_id, req.razorpay_payment_id))

\* C2: a verify_payment request with a missing input or with a signature
\* other than HMAC(secret, order_id|payment_id) answers 400, leaves every
\* order record as it was and starts no notification, whatever the store does.
FailedVerifyChangesNothing ==
    \A req \in VerifyRequests, fault \in VerifyFaults :
        (Incomplete(req) \/ SignatureDiffers(req)) =>
            LET r == Verify(req, orders, threads, fault)
            IN  /\ r.last.code = 400
                /\ r.store = orders
                /\ r.threads = threads
                /\ r.last.mails = <<>>

\* a verification was refused while an unpaid order was stored
VerifyRefused ==
    /\ last.op = "verify" /\ last.code = 400
    /\ \E id \in DOMAIN orders : orders[id].status = "created"

\* C3: for a stored order with status 'created', a verify_payment request
\* with a valid signature and that order's id, whose store calls succeed,
\* leaves the record 'paid' with the supplied payment id, answers success and
\* starts exactly one background notification, to the order's user_email.
VerifiedOrderBecomesPaid ==
    \A req \in SignedRequests :
        (req.order_id \in DOMAIN orders /\ orders[req.order_id].status = "created") =>
            LET id == req.order_id
                r == Verify(req, orders, threads, "none")
            IN  /\ r.last.code = 200
                /\ r.last.order_id = id
                /\ r.last.payment_id = req.razorpay_payment_id
                /\ r.store[id].status = "paid"
                /\ r.store[id].payment_id = req.razorpay_payment_id
                /\ r.threads = threads (+) SetToBag({Mail(orders[id].user_email, "paid", id)})
                /\ r.last.mails = <<Mail(orders[id].user_email, "paid", id)>>

\* a verification succeeded, the order is paid and its mail is in flight
VerifiedAndNotified ==
    /\ last.op = "verify" /\ last.code = 200
    /\ last.order_id \in DOMAIN orders
    /\ orders[last.order_id].status = "paid"
    /\ orders[last.order_id].payment_id = last.payment_id
    /\ last.mails = <<Mail(orders[last.order_id].user_email, "paid", last.order_id)>>
    /\ BagIn(last.mails[1], threads)

\* the request passes the checks made before the amount is looked at
PassesFieldChecks(req) ==
    /\ req.json
    /\ RequiredFields \subseteq req.has
    /\ PyInt(req.amount).ok
    /\ Contains(Strip(req.email), "@")
    /\ Contains(Strip(req.email), ".")

\* C4: a create_order request for amount > 0 whose gateway call fails
\* answers an error and inserts nothing; and every stored order with
\* amount > 0 has an id the gateway returned from a successful call.
GatewayFailurePersistsNothing ==
    /\ \A req \in CreateRequests :
          (PassesFieldChecks(req) /\ PyInt(req.amount).v > 0) =>
              LET r == Create(req, orders, clock, gwCount, "gateway")
              IN  /\ r.last.code = 500
                  /\ r.store = orders
                  /\ r.gwCount = gwCount
    /\ \A id \in DOMAIN orders : orders[id].amount > 0 => id \in GwIssued

\* the gateway failed for a request made after a paid order was stored
\* (every gateway order has its row, so the failing call created none)
GatewayFailedAfterPaidOrder ==
    /\ last.op = "create" /\ last.code = 500 /\ last.gwCalls # <<>>
    /\ gwCount >= 1
    /\ Cardinality({id \in DOMAIN orders : orders[id].amount > 0}) = gwCount

\* C5: create_order picks its path from the amount alone: below 0 it
\* answers 400 without any effect, at 0 it never calls the gateway, from 1
\* on it calls the gateway exactly once with amount * 100.
AmountChoosesPath ==
    \A req \in CreateRequests, fault \in CreateFaults :
        PassesFieldChecks(req) =>
            LET a == PyInt(req.amount).v
                r == Create(req, orders, clock, gwCount, fault)
            IN  /\ a < 0 => /\ r.last.code = 400
                            /\ r.store = orders
                            /\ r.gwCount = gwCount
                            /\ r.last.gwCalls = <<>>
                            /\ r.last.mails = <<>>
                /\ a = 0 => r.last.gwCalls = <<>> /\ r.gwCount = gwCount
                /\ a >= 1 => r.last.gwCalls = <<a * 100>>

\* an order for amount 1 went to the gateway as 100, next to a free order
\* that never did
BoundaryAmountsTakeBothPaths ==
    /\ last.op = "create" /\ last.code = 200 /\ last.gwCalls = <<100>>
    /\ orders[last.order_id].amount = 1
    /\ \E id \in FreeIds : id \in DOMAIN orders /\ orders[id].amount = 0
    /\ gwCount = 1

\* C6: every valid create_order request for amount 0 whose store and
\* notifier are available stores a 'created' record of the request under
\* FREE-<unixSeconds>, answers success and calls the notifier exactly once
\* with the request's email, also for a second such request in the same
\* clock second.
FreeOrderAlwaysPersisted ==
    \A req \in CreateRequests :
        (PassesFieldChecks(req) /\ PyInt(req.amount).v = 0) =>
            LET id == FreeId(clock)
                r == Create(req, orders, clock, gwCount, "none")
            IN  /\ r.last.code = 200
                /\ r.last.order_id = id
                /\ id \in DOMAIN r.store
                /\ r.store[id].status = "created"
                /\ r.store[id].user_email = Strip(req.email)
                /\ r.last.mails = <<Mail(Strip(req.email), "free", id)>>

\* C7: a create_order request for amount > 0 whose gateway call and insert
\* succeed stores, under the id the gateway returned, a record with status
\* 'created', no payment id and the requested amount (not amount * 100),
\* and sends no notification.
PaidOrderStoredUnderGatewayId ==
    \A req \in CreateRequests, fault \in {"none", "mail"} :
        (PassesFieldChecks(req) /\ PyInt(req.amount).v > 0) =>
            LET r == Create(req, orders, clock, gwCount, fault)
                id == GwId(r.gwCount)
            IN  /\ r.gwCount = gwCount + 1
                /\ r.last.code = 200
                /\ r.last.order_id = id
                /\ DOMAIN r.store = DOMAIN orders \cup {id}
                /\ \A i \in DOMAIN orders : r.store[i] = orders[i]
                /\ r.store[id] =
                       [user_name |-> Strip(req.name),
                        user_email |-> Strip(req.email),
                        user_whatsapp |-> Strip(req.whatsapp),
                        amount |-> PyInt(req.amount).v,
                        status |-> "created", payment_id |-> NoPid]
                /\ r.last.mails = <<>>

\* the order for amount 1 is stored under the gateway's newest id
PaidOrderCreated ==
    /\ last.op = "create" /\ last.code = 200 /\ last.gwCalls = <<100>>
    /\ last.order_id = GwId(gwCount)
    /\ last.mails = <<>>
    /\ orders[last.order_id].amount = 1
    /\ orders[last.order_id].status = "created"
    /\ orders[last.order_id].payment_id = NoPid

\* C8: once the stored payment_id of an order is set, no later request
\* changes it.
PaymentIdSetOnce ==
    [][\A id \in DOMAIN orders :
          orders[id].payment_id # NoPid =>
              id \in DOMAIN orders' /\ orders'[id].payment_id = orders[id].payment_id]_vars

\* C9: two verify_payment requests with identical valid arguments, whose
\* store calls succeed, both answer success, and the table after the second
\* is the table after the first, the order (if stored) being 'paid' with
\* the supplied payment id.
VerifyIdempotent ==
    \A req \in SignedRequests :
        LET id == req.order_id
            r1 == Verify(req, orders, threads, "none")
            r2 == Verify(req, r1.store, r1.threads, "none")
        IN  /\ r1.last.code = 200
            /\ r2.last.code = 200
            /\ r2.store = r1.store
            /\ id \in DOMAIN orders =>
                  /\ r1.store[id].status = "paid"
                  /\ r2.store[id].status = "paid"
                  /\ r2.store[id].payment_id = req.razorpay_payment_id

\* an order was verified a second time: it is paid with the payment id of
\* the last request, and two of its notifications are in flight
VerifiedTwice ==
    /\ last.op = "verify" /\ last.code = 200
    /\ last.order_id \in DOMAIN orders
    /\ orders[last.order_id].status = "paid"
    /\ orders[last.order_id].payment_id = last.payment_id
    /\ last.mails # <<>>
    /\ CopiesIn(last.mails[1], threads) = 2

\* C10: two successive verify_payment requests with an identical valid
\* signature for an order start at most one payment-confirmed notification
\* between them.
DuplicateVerifyNotifiesOnce ==
    \A req \in SignedRequests :
        LET r1 == Verify(req, orders, threads, "none")
            r2 == Verify(req, r1.store, r1.threads, "none")
        IN  BagCardinality(r2.threads) <= BagCardinality(threads) + 1

\* C11: update_order_payment on an order id that is not in the table
\* reports failure and creates no record, and a verify_payment request with
\* a valid signature for an order id that is not in the table does not
\* answer success.
AbsentOrderVerifyFails ==
    \A req \in SignedRequests :
        req.order_id \notin DOMAIN orders =>
            LET upd == update_order_payment(orders, req.order_id,
                                            req.razorpay_payment_id, "paid", TRUE)
                r == Verify(req, orders, threads, "none")
            IN  /\ ~upd.ok
                /\ upd.store = orders
                /\ r.last.code # 200

\* C12: an insert under an id that is already in the table fails and leaves
\* the table (the stored row, its status and payment_id included) as it
\* was; a create_order request whose id is already taken answers 500,
\* keeps the table and calls neither the notifier nor starts a thread.
CollidingInsertRefused ==
    /\ \A id \in DOMAIN orders :
          LET ins == insert_order(orders, id, Bob, BobMail, Phone, 1, TRUE)
          IN  ~ins.ok /\ ins.store = orders
    /\ \A req \in CreateRequests, fault \in CreateFaults :
          (/\ PassesFieldChecks(req)
           /\ PyInt(req.amount).v = 0
           /\ FreeId(clock) \in DOMAIN orders) =>
              LET r == Create(req, orders, clock, gwCount, fault)
              IN  /\ r.last.code = 500
                  /\ r.store = orders
                  /\ r.last.mails = <<>>
                  /\ r.last.results = <<>>

\* a free create_order was refused in the second whose FREE- order is
\* stored, unpaid and untouched
CollidingFreeOrderRefused ==
    /\ last.op = "create" /\ last.code = 500
    /\ last.gwCalls = <<>> /\ last.mails = <<>>
    /\ FreeId(clock) \in DOMAIN orders
    /\ orders[FreeId(clock)] =
           [user_name |-> Alice, user_email |-> AliceMail,
            user_whatsapp |-> Phone, amount |-> 0,
            status |-> "created", payment_id |-> NoPid]

\* requests with a field that is empty once stripped
BlankFieldRequests ==
    { CreateReq(TRUE, RequiredFields, Blank, AliceMail, Phone, JsonInt(0)),
      CreateReq(TRUE, RequiredFields, Alice, AliceMail, Blank, JsonInt(0)),
      CreateReq(TRUE, RequiredFields, <<>>, BobMail, Phone, JsonInt(1)) }

\* the request is one the validation rules reject
RejectedByRules(req) ==
    \/ ~(RequiredFields \subseteq req.has)
    \/ Strip(req.name) = <<>>
    \/ Strip(req.email) = <<>>
    \/ Strip(req.whatsapp) = <<>>
    \/ ~Contains(req.email, "@")
    \/ ~Contains(req.email, ".")
    \/ ~PyInt(req.amount).ok
    \/ PyInt(req.amount).v < 0

\* C13: a JSON create_order request with a field missing, with name, email
\* or whatsapp empty after stripping, with an email lacking '@' or '.', or
\* with an amount that is not a non-negative integer answers a client error
\* (4xx), inserts nothing, calls neither the gateway nor the notifier.
InvalidCreateRejected ==
    \A req \in CreateRequests \cup BlankFieldRequests, fault \in CreateFaults :
        (req.json /\ RejectedByRules(req)) =>
            LET r == Create(req, orders, clock, gwCount, fault)
            IN  /\ r.last.code \in 400..499
                /\ r.store = orders
                /\ r.gwCount = gwCount
                /\ r.last.gwCalls = <<>>
                /\ r.last.mails = <<>>

\* the part of a response the caller sees
Answer(resp) ==
    [code |-> resp.code, order_id |-> resp.order_id, payment_id |-> resp.payment_id]

\* C14: a failing notifier never fails the enclosing operation: a free
\* create_order and a send_book request give the same answer and the same
\* table whether send_email succeeds or fails, and the end of a background
\* mail thread of verify_payment, whatever send_email returned in it,
\* changes neither the table nor the answer already given.
NotifierFailureNeverFails ==
    /\ [](\A req \in CreateRequests :
            (PassesFieldChecks(req) /\ PyInt(req.amount).v = 0) =>
                LET ok == Create(req, orders, clock, gwCount, "none")
                    failed == Create(req, orders, clock, gwCount, "mail")
                IN  /\ Answer(failed.last) = Answer(ok.last)
                    /\ failed.store = ok.store)
    /\ [](\A req \in SendRequests :
            Answer(Send(req, orders, "mail")) = Answer(Send(req, orders, "none")))
    /\ [][BagCardinality(threads') < BagCardinality(threads) =>
              orders' = orders /\ last' = last]_vars

\* a free order was stored and answered 200 although its mail failed
FreeOrderMailFailed ==
    /\ last.op = "create" /\ last.code = 200
    /\ last.results = <<FALSE>>
    /\ last.order_id \in DOMAIN orders
    /\ orders[last.order_id].amount = 0

\* C15: for an order id that is not in the table, get_order_details and
\* send_book (given both inputs) answer 404 and call no notifier; and no
\* get_order_details or send_book request changes the table.
AbsentOrderNotFound ==
    /\ [](\A order_id \in OrderIds \ DOMAIN orders, dbOk \in BOOLEAN :
            LET r == get_order_details(order_id, orders, dbOk)
            IN  r.code = 404 /\ r.mails = <<>>)
    /\ [](\A req \in SendRequests, fault \in SendFaults :
            (/\ req.order_id # NoId
             /\ req.email # NoMail
             /\ req.order_id \notin DOMAIN orders) =>
                LET r == Send(req, orders, fault)
                IN  r.code = 404 /\ r.mails = <<>>)
    /\ [][last'.op \in {"get", "sendbook"} =>
              orders' = orders /\ threads' \sqsubseteq threads]_vars

\* send_book answered 404 while other orders were stored
SendBookNotFound ==
    /\ last.op = "sendbook" /\ last.code = 404
    /\ last.mails = <<>>
    /\ orders # <<>>
    /\ OrderIds \ DOMAIN orders # {}

\* C16: a send_book request with both inputs for a stored order calls
\* send_email exactly once inside the request (no thread is started), with
\* the address the caller gave, equal to the stored user_email or not,
\* answers 200 whether or not the mail went out, and leaves the table as it
\* was.
SendBookMailsCallerAddress ==
    /\ [](\A req \in SendRequests, fault \in {"none", "mail"} :
            (req.email # NoMail /\ req.order_id \in DOMAIN orders) =>
                LET r == Send(req, orders, fault)
                IN  /\ r.code = 200
                    /\ r.order_id = req.order_id
                    /\ r.mails = <<Mail(req.email, "book", req.order_id)>>
                    /\ r.results = <<fault = "none">>)
    /\ [][(last'.op = "sendbook" /\ last' # last) =>
              orders' = orders /\ threads' = threads]_vars

\* the book of an order went to an address other than the stored one
BookSentToOtherAddress ==
    /\ last.op = "sendbook" /\ last.code = 200
    /\ last.order_id \in DOMAIN orders
    /\ Len(last.mails) = 1
    /\ last.mails[1].to # orders[last.order_id].user_email

\* C17: whenever verify_payment starts the payment-confirmed notification
\* of an order, the stored status of that order is 'paid' at that moment,
\* also when update_order_payment reported a storage failure.
NotifiedOnlyWhenPaid ==
    \A req \in SignedRequests, fault \in VerifyFaults :
        LET r == Verify(req, orders, threads, fault)
        IN  r.last.mails # <<>> =>
                /\ req.order_id \in DOMAIN r.store
                /\ r.store[req.order_id].status = "paid"

\* the requests whose UPDATE of this order has been committed
Writers(id) ==
    {i \in Slots : inflight[i].wrote > 0 /\ inflight[i].req.order_id = id}

\* the one among them that wrote last
LastWriter(id) ==
    CHOOSE i \in Writers(id) : \A j \in Writers(id) : inflight[j].wrote <= inflight[i].wrote

\* C18: however two verify_payment requests with valid signatures
\* interleave, every stored order is either as create_order left it
\* ('created', no payment id) while no UPDATE of it has been committed, or
\* 'paid' with the payment id of the request whose UPDATE was committed
\* last, every other column being as it was; so a committed UPDATE of an
\* order leaves it 'paid' for good and touches no other order.
RaceLastWriteWins ==
    \E start \in RaceStores :
        /\ DOMAIN orders = DOMAIN start
        /\ \A id \in DOMAIN orders :
              IF Writers(id) = {}
              THEN orders[id] = start[id]
              ELSE orders[id] =
                       [start[id] EXCEPT
                           !.status = "paid",
                           !.payment_id = inflight[LastWriter(id)].req.razorpay_payment_id]

\* both requests have committed their UPDATE of the same order, with
\* different payment ids, before either has read the row back; the order
\* next to it is untouched
BothWroteBeforeReading ==
    /\ inflight[1].pc = "get" /\ inflight[2].pc = "get"
    /\ inflight[1].wrote = 2 /\ inflight[2].wrote = 1
    /\ inflight[1].req.order_id = GwId(1) /\ inflight[2].req.order_id = GwId(1)
    /\ inflight[1].req.razorpay_payment_id # inflight[2].req.razorpay_payment_id
    /\ orders[GwId(1)].status = "paid"
    /\ orders[GwId(1)].payment_id = inflight[1].req.razorpay_payment_id
    /\ FreeId(0) \in DOMAIN orders
    /\ orders[FreeId(0)].status = "created"

\* C19: a verify_payment request turns the stored status of an order to
\* 'paid' only if its signature was made for that order: the gateway order
\* id the signature covers is the id of the order that becomes paid.
PaidOnlyBySignatureForOrder ==
    \A req \in SignedRequests, fault \in VerifyFaults :
        req.razorpay_order_id \in GwIssued =>
            LET r == Verify(req, orders, threads, fault)
            IN  \A id \in DOMAIN orders :
                    (orders[id].status # "paid" /\ r.store[id].status = "paid") =>
                        req.razorpay_order_id = id

\* the mails carry the link of no priced order that the table holds unpaid
ReleasesNoUnpaidLink(mails, store) ==
    \A i \in 1..Len(mails) :
        (mails[i].link /\ mails[i].order_id \in DOMAIN store) =>
            ~(/\ store[mails[i].order_id].amount > 0
              /\ store[mails[i].order_id].status = "created")

\* C20: no create_order, verify_payment or send_book request, served with
\* every collaborator working, sends a notification carrying the download
\* link for an order with amount > 0 whose stored status is 'created'.
LinkOnlyAfterPayment ==
    /\ \A req \in CreateRequests :
          LET r == Create(req, orders, clock, gwCount, "none")
          IN  ReleasesNoUnpaidLink(r.last.mails, r.store)
    /\ \A req \in VerifyRequests :
          LET r == Verify(req, orders, threads, "none")
          IN  ReleasesNoUnpaidLink(r.last.mails, r.store)
    /\ \A req \in SendRequests :
          ReleasesNoUnpaidLink(Send(req, orders, "none").mails, orders)

\* the columns that say whose order it is and for how much
Identity(row) ==
    [user_name |-> row.user_name, user_email |-> row.user_email,
     user_whatsapp |-> row.user_whatsapp, amount |-> row.amount]

\* C21: no step removes an order or changes its user_name, user_email,
\* user_whatsapp or amount; and a verify_payment request for order X, with
\* whatever signature and store behaviour, leaves the set of stored ids and
\* every order other than X as they were and changes at most the
\* payment_id and status of X.
OrdersKeepIdentity ==
    /\ [][\A id \in DOMAIN orders :
             /\ id \in DOMAIN orders'
             /\ Identity(orders'[id]) = Identity(orders[id])]_vars
    /\ [](\A req \in VerifyRequests, fault \in VerifyFaults :
            LET r == Verify(req, orders, threads, fault)
            IN  /\ DOMAIN r.store = DOMAIN orders
                /\ \A id \in DOMAIN orders :
                      /\ Identity(r.store[id]) = Identity(orders[id])
                      /\ id # req.order_id => r.store[id] = orders[id])

\* the priced order was verified: it is paid and still Bob's order for 1,
\* and the free order next to it is as it was created
PaidOrderKeptIdentity ==
    /\ last.op = "verify" /\ last.code = 200 /\ last.order_id = GwId(1)
    /\ GwId(1) \in DOMAIN orders /\ FreeId(0) \in DOMAIN orders
    /\ orders[GwId(1)] =
           [user_name |-> Bob, user_email |-> BobMail, user_whatsapp |-> Phone,
            amount |-> 1, status |-> "paid", payment_id |-> last.payment_id]
    /\ orders[FreeId(0)] =
           [user_name |-> Alice, user_email |-> AliceMail, user_whatsapp |-> Phone,
            amount |-> 0, status |-> "created", payment_id |-> NoPid]

\* C22: in every reachable state every stored order has status 'created'
\* or 'paid', and its status is 'paid' exactly when its payment_id is set.
StatusMatchesPaymentId ==
    \A id \in DOMAIN orders :
        /\ orders[id].status \in {"created", "paid"}
        /\ orders[id].status = "paid" <=> orders[id].payment_id # NoPid

\* an order was created while another one was already paid: one row of
\* each kind in the table
PaidAndUnpaidSideBySide ==
    /\ last.op = "create" /\ last.code = 200
    /\ orders[last.order_id].status = "created"
    /\ orders[last.order_id].payment_id = NoPid
    /\ \E id \in DOMAIN orders :
          orders[id].status = "paid" /\ orders[id].payment_id \in PaymentIds

====
